---------------------------- MODULE Spec2Model ----------------------------
(***************************************************************************)
(* Model of src/app.py: a mood / productivity journal kept in the CSV file *)
(* mood_data.csv and served over HTTP by Flask handlers.                   *)
(*                                                                         *)
(* Text is modelled as a sequence of one-character strings, so that the    *)
(* conversions the program performs on it (strptime, int(), str(),         *)
(* str.lower(), the csv writer, the universal-newline read, the string     *)
(* comparison of dates) are computed and not assumed.  The two control     *)
(* characters that matter are written "CR" and "LF".                       *)
(*                                                                         *)
(* A JSON / Python value is a record [t, s, n]: t is its type ("str",      *)
(* "int", "null", or "missing" for a key the request body does not hold),  *)
(* s its text when it is a string, n its number when it is an integer.     *)
(*                                                                         *)
(* The backing file is [exists, rows]: rows are the records of the file in *)
(* order, each a sequence of fields, each field the bytes the csv writer   *)
(* put between the delimiters (the dialect's quoting is undone by the csv  *)
(* reader and is not a source of difference; the newline translation of    *)
(* the text-mode read is, and is modelled in load_all_logs).               *)
(*                                                                         *)
(* get_summary and the index page read the store only and no property     *)
(* checked here depends on them; they are not modelled.                    *)
(***************************************************************************)
EXTENDS Integers, Sequences, FiniteSets, TLC

VARIABLES
    file,       \* the backing store mood_data.csv
    prevFile,   \* the store as it was before the last request
    lastReq,    \* the last request served
    lastResp,   \* the response to it
    rpc,        \* concurrent handlers: position of each (start, loaded, done)
    rreq,       \* concurrent handlers: the request each one serves
    rsnap,      \* concurrent handlers: the list each one loaded
    rresp,      \* concurrent handlers: the response of each
    rtrace      \* concurrent handlers: the steps taken, in order

vars == <<file, prevFile, lastReq, lastResp, rpc, rreq, rsnap, rresp, rtrace>>

seqVars == <<file, prevFile, lastReq, lastResp>>

raceVars == <<rpc, rreq, rsnap, rresp, rtrace>>

\* Bound of the model: the number of entries the store may hold.
MaxLogs == 2

-----------------------------------------------------------------------------
(* Characters and text *)

DigitChars == <<"0", "1", "2", "3", "4", "5", "6", "7", "8", "9">>

IsDigit(c) == \E i \in 1..10 : DigitChars[i] = c

DigitVal(c) == (CHOOSE i \in 1..10 : DigitChars[i] = c) - 1

UpperChars ==
    <<"A", "B", "C", "D", "E", "F", "G", "H", "I", "J", "K", "L", "M",
      "N", "O", "P", "Q", "R", "S", "T", "U", "V", "W", "X", "Y", "Z">>

LowerChars ==
    <<"a", "b", "c", "d", "e", "f", "g", "h", "i", "j", "k", "l", "m",
      "n", "o", "p", "q", "r", "s", "t", "u", "v", "w", "x", "y", "z">>

\* str.lower() on one character
LowerChar(c) ==
    IF \E i \in 1..26 : UpperChars[i] = c
    THEN LowerChars[CHOOSE i \in 1..26 : UpperChars[i] = c]
    ELSE c

\* str.lower()
Lower(s) == [i \in 1..Len(s) |-> LowerChar(s[i])]

\* The code point order of the characters, as far as the comparison of two
\* texts needs it: control characters, space, '-', the digits, the letters.
Ord(c) ==
    CASE c = "LF" -> 10
      [] c = "CR" -> 13
      [] c = " " -> 32
      [] c = "+" -> 43
      [] c = "-" -> 45
      [] IsDigit(c) -> 48 + DigitVal(c)
      [] \E i \in 1..26 : UpperChars[i] = c ->
            64 + (CHOOSE i \in 1..26 : UpperChars[i] = c)
      [] OTHER -> 96 + (CHOOSE i \in 1..26 : LowerChars[i] = c)

\* Python's a >= b on two strings: lexicographic by code point.
RECURSIVE StrGE(_, _)
StrGE(a, b) ==
    IF b = <<>> THEN TRUE
    ELSE IF a = <<>> THEN FALSE
    ELSE IF Ord(Head(a)) # Ord(Head(b)) THEN Ord(Head(a)) > Ord(Head(b))
    ELSE StrGE(Tail(a), Tail(b))

\* str(n) for a natural number
RECURSIVE NatText(_)
NatText(n) ==
    IF n < 10 THEN <<DigitChars[n + 1]>>
    ELSE NatText(n \div 10) \o <<DigitChars[(n % 10) + 1]>>

\* the value of a text of digits
RECURSIVE DigitsVal(_)
DigitsVal(s) ==
    IF s = <<>> THEN 0
    ELSE 10 * DigitsVal(SubSeq(s, 1, Len(s) - 1)) + DigitVal(s[Len(s)])

AllDigits(s) == s # <<>> /\ \A i \in 1..Len(s) : IsDigit(s[i])

\* str.strip() of blanks, which int() applies to a string
RECURSIVE Strip(_)
Strip(s) ==
    IF s = <<>> THEN s
    ELSE IF Head(s) = " " THEN Strip(Tail(s))
    ELSE IF s[Len(s)] = " " THEN Strip(SubSeq(s, 1, Len(s) - 1))
    ELSE s

-----------------------------------------------------------------------------
(* JSON / Python values *)

StrV(s) == [t |-> "str", s |-> s, n |-> 0]

IntV(n) == [t |-> "int", s |-> <<>>, n |-> n]

Null == [t |-> "null", s |-> <<>>, n |-> 0]

Missing == [t |-> "missing", s |-> <<>>, n |-> 0]

\* dict.get(key, ''): the value, or the empty string for a key not present
Get(v) == IF v.t = "missing" THEN StrV(<<>>) ELSE v

\* The outcome of a call: the exception it raised ("" for none), the truth
\* value and the number it returned.
Ret(b) == [exc |-> "", ret |-> b, val |-> 0]

Val(n) == [exc |-> "", ret |-> TRUE, val |-> n]

Raise(e) == [exc |-> e, ret |-> FALSE, val |-> 0]

\* int(v): an integer as it is; a string stripped, with an optional sign,
\* when the rest is digits (ValueError otherwise); None is a TypeError.
PyInt(v) ==
    CASE v.t = "int" -> Val(v.n)
      [] v.t = "str" ->
            LET body == Strip(v.s)
                signed == body # <<>> /\ Head(body) \in {"+", "-"}
                digits == IF signed THEN Tail(body) ELSE body
            IN  IF ~AllDigits(digits) THEN Raise("ValueError")
                ELSE IF signed /\ Head(body) = "-" THEN Val(0 - DigitsVal(digits))
                ELSE Val(DigitsVal(digits))
      [] OTHER -> Raise("TypeError")

-----------------------------------------------------------------------------
(* Dates *)

IsLeap(y) == (y % 4 = 0 /\ y % 100 # 0) \/ y % 400 = 0

DaysInMonth(y, m) ==
    IF m = 2 THEN (IF IsLeap(y) THEN 29 ELSE 28)
    ELSE IF m \in {4, 6, 9, 11} THEN 30
    ELSE 31

\* The position of the second '-' of a text that holds one at position 5
\* (0 when there is none).
SecondDash(s) ==
    IF \E i \in 6..Len(s) : s[i] = "-"
    THEN CHOOSE i \in 6..Len(s) : s[i] = "-" /\ \A j \in 6..(i - 1) : s[j] # "-"
    ELSE 0

\* strptime's %m: 1[0-2] | 0[1-9] | [1-9]
MonthToken(tok) ==
    \/ Len(tok) = 2 /\ tok[1] = "1" /\ tok[2] \in {"0", "1", "2"}
    \/ Len(tok) = 2 /\ tok[1] = "0" /\ IsDigit(tok[2]) /\ tok[2] # "0"
    \/ Len(tok) = 1 /\ IsDigit(tok[1]) /\ tok[1] # "0"

\* strptime's %d: 3[0-1] | [1-2]\d | 0[1-9] | [1-9] | ' '[1-9]
DayToken(tok) ==
    \/ Len(tok) = 2 /\ tok[1] = "3" /\ tok[2] \in {"0", "1"}
    \/ Len(tok) = 2 /\ tok[1] \in {"1", "2"} /\ IsDigit(tok[2])
    \/ Len(tok) = 2 /\ tok[1] \in {"0", " "} /\ IsDigit(tok[2]) /\ tok[2] # "0"
    \/ Len(tok) = 1 /\ IsDigit(tok[1]) /\ tok[1] # "0"

\* datetime.strptime(s, '%Y-%m-%d') on a string: four digits, '-', a month
\* token, '-', a day token and nothing after; then the date must exist
\* (year 1..9999, day within the month).  [ok, y, m, d].
Strptime(s) ==
    LET dash == IF Len(s) >= 5 /\ s[5] = "-" THEN SecondDash(s) ELSE 0
        shape == /\ dash # 0
                 /\ AllDigits(SubSeq(s, 1, 4))
                 /\ MonthToken(SubSeq(s, 6, dash - 1))
                 /\ DayToken(SubSeq(s, dash + 1, Len(s)))
        y == DigitsVal(SubSeq(s, 1, 4))
        m == DigitsVal(SubSeq(s, 6, dash - 1))
        d == DigitsVal(Strip(SubSeq(s, dash + 1, Len(s))))
    IN  IF shape /\ y >= 1 /\ d <= DaysInMonth(y, m)
        THEN [ok |-> TRUE, y |-> y, m |-> m, d |-> d]
        ELSE [ok |-> FALSE, y |-> 0, m |-> 0, d |-> 0]

\* the day before
PrevDay(day) ==
    IF day.d > 1 THEN [day EXCEPT !.d = day.d - 1]
    ELSE IF day.m > 1
         THEN [y |-> day.y, m |-> day.m - 1, d |-> DaysInMonth(day.y, day.m - 1)]
         ELSE [y |-> day.y - 1, m |-> 12, d |-> 31]

\* day - timedelta(days=k)
RECURSIVE MinusDays(_, _)
MinusDays(day, k) == IF k = 0 THEN day ELSE MinusDays(PrevDay(day), k - 1)

\* n written with at least w digits, zero padded
RECURSIVE Padded(_, _)
Padded(n, w) ==
    IF w <= 1 THEN NatText(n)
    ELSE IF Len(NatText(n)) >= w THEN NatText(n)
    ELSE <<"0">> \o Padded(n, w - 1)

\* day.strftime('%Y-%m-%d')
Strftime(day) ==
    Padded(day.y, 4) \o <<"-">> \o Padded(day.m, 2) \o <<"-">> \o Padded(day.d, 2)

-----------------------------------------------------------------------------
(* Validators: MoodTracker.validate_date, validate_productivity,           *)
(* validate_mood.  Each returns True or False, or raises what its try      *)
(* block does not catch.                                                   *)

\* strptime wants a string (TypeError for anything else, which the
\* except ValueError clause does not catch).
validate_date(date_str) ==
    IF date_str.t # "str" THEN Raise("TypeError")
    ELSE Ret(Strptime(date_str.s).ok)

\* int() raises ValueError (caught: False) or TypeError (not caught).
validate_productivity(productivity) ==
    LET score == PyInt(productivity)
    IN  IF score.exc = "ValueError" THEN Ret(FALSE)
        ELSE IF score.exc # "" THEN Raise(score.exc)
        ELSE Ret(1 <= score.val /\ score.val <= 10)

valid_moods ==
    { <<"h", "a", "p", "p", "y">>, <<"s", "a", "d">>, <<"a", "n", "g", "r", "y">>,
      <<"a", "n", "x", "i", "o", "u", "s">>, <<"c", "a", "l", "m">>,
      <<"e", "x", "c", "i", "t", "e", "d">>, <<"t", "i", "r", "e", "d">>,
      <<"n", "e", "u", "t", "r", "a", "l">> }

\* mood.lower() exists on strings only (AttributeError otherwise).
validate_mood(mood) ==
    IF mood.t # "str" THEN Raise("AttributeError")
    ELSE Ret(Lower(mood.s) \in valid_moods)

-----------------------------------------------------------------------------
(* The record store: MoodTracker.initialize_file, load_all_logs, save_log, *)
(* save_all_logs.                                                          *)

T_date == <<"d", "a", "t", "e">>

T_mood == <<"m", "o", "o", "d">>

T_productivity == <<"p", "r", "o", "d", "u", "c", "t", "i", "v", "i", "t", "y">>

T_note == <<"n", "o", "t", "e">>

HeaderRow == <<T_date, T_mood, T_productivity, T_note>>

Absent == [exists |-> FALSE, rows |-> <<>>]

\* The file is created with the header only when it does not exist.
initialize_file(f) ==
    IF ~f.exists THEN [exists |-> TRUE, rows |-> <<HeaderRow>>] ELSE f

\* What csv.writer writes for a value: str(value), and nothing for None.
CsvText(v) ==
    CASE v.t = "str" -> v.s
      [] v.t = "int" -> NatText(v.n)
      [] OTHER -> <<>>

\* writer.writerow([log['date'], log['mood'], log['productivity'], log['note']])
RowOf(log) ==
    <<CsvText(log.date), CsvText(log.mood), CsvText(log.productivity), CsvText(log.note)>>

\* open(DATA_FILE, 'r') has no newline='': the text layer turns CR LF and a
\* lone CR into LF before the csv reader sees them, inside quoted fields too.
RECURSIVE Translate(_)
Translate(s) ==
    IF s = <<>> THEN s
    ELSE IF Head(s) = "CR" /\ Len(s) >= 2 /\ s[2] = "LF"
         THEN <<"LF">> \o Translate(Tail(Tail(s)))
    ELSE IF Head(s) = "CR" THEN <<"LF">> \o Translate(Tail(s))
    ELSE <<Head(s)>> \o Translate(Tail(s))

UniversalNewlines(s) ==
    IF \A i \in 1..Len(s) : s[i] # "CR" THEN s ELSE Translate(s)

ReadRow(r) == [i \in 1..Len(r) |-> UniversalNewlines(r[i])]

\* Whether csv.DictReader gives a row the key: the first row of the file is
\* the field names, and a row shorter than them has None for the rest.
HasKey(names, key) == \E i \in 1..Len(names) : names[i] = key

\* row[key] of a DictReader row: the field under the (last) column of that
\* name, None when the row is too short.
Field(names, r, key) ==
    LET i == CHOOSE k \in 1..Len(names) :
                 names[k] = key /\ \A j \in (k + 1)..Len(names) : names[j] # key
    IN  IF ~HasKey(names, key) THEN Missing
        ELSE IF i > Len(r) THEN Null
        ELSE StrV(r[i])

\* row['productivity'] = int(row['productivity']) raises KeyError without
\* such a column, TypeError on None, ValueError on text that is no integer.
RowRaises(names, r) ==
    \/ ~HasKey(names, T_productivity)
    \/ PyInt(Field(names, r, T_productivity)).exc # ""

\* The rows of the file as the reader yields them: all but the first.
DataRows(f) ==
    IF Len(f.rows) <= 1 THEN <<>>
    ELSE [i \in 1..(Len(f.rows) - 1) |-> ReadRow(f.rows[i + 1])]

FieldNames(f) == ReadRow(f.rows[1])

\* Whether the loop over the rows raises.
RowsRaise(names, rows) == \E i \in 1..Len(rows) : RowRaises(names, rows[i])

\* Whether the read of an existing file raises inside the loop.
ReadRaises(f) == f.exists /\ Len(f.rows) > 1 /\ RowsRaise(FieldNames(f), DataRows(f))

\* Whether load_all_logs returns [] from one of its except clauses.
LoadFails(f) == ~f.exists \/ ReadRaises(f)

LogOfRow(names, r) ==
    [date |-> Field(names, r, T_date),
     mood |-> Field(names, r, T_mood),
     productivity |-> IntV(PyInt(Field(names, r, T_productivity)).val),
     note |-> Field(names, r, T_note)]

\* faulty variant: the except clause hands back the rows read before the error
load_all_logs_partial(f) ==
    IF ~f.exists \/ Len(f.rows) <= 1 THEN <<>>
    ELSE LET rows == DataRows(f)
             names == FieldNames(f)
             good == {n \in 0..Len(rows) : ~RowsRaise(names, SubSeq(rows, 1, n))}
             upto == CHOOSE n \in good : \A k \in good : k <= n
         IN  [i \in 1..upto |-> LogOfRow(names, rows[i])]

\* [] when the file does not exist (FileNotFoundError) or any row raises
\* (except Exception: the rows read so far are dropped); else every row.
load_all_logs(f) ==
    IF ~f.exists \/ Len(f.rows) <= 1 THEN <<>>
    ELSE LET rows == DataRows(f)
             names == FieldNames(f)
         IN  IF RowsRaise(names, rows) THEN <<>>
             ELSE [i \in 1..Len(rows) |-> LogOfRow(names, rows[i])]

\* open(DATA_FILE, 'a') creates the file when absent; one row is appended.
save_log(f, log_data) ==
    [exists |-> TRUE, rows |-> f.rows \o <<RowOf(log_data)>>]

\* faulty variant: the header is not written
save_all_logs_no_header(f, logs) ==
    [exists |-> TRUE, rows |-> [i \in 1..Len(logs) |-> RowOf(logs[i])]]

\* faulty variant: the file is opened for append and the old rows stay
save_all_logs_append(f, logs) ==
    [exists |-> TRUE,
     rows |-> f.rows \o <<HeaderRow>> \o [i \in 1..Len(logs) |-> RowOf(logs[i])]]

\* open(DATA_FILE, 'w') truncates; the header, then one row per log.
save_all_logs(f, logs) ==
    [exists |-> TRUE,
     rows |-> <<HeaderRow>> \o [i \in 1..Len(logs) |-> RowOf(logs[i])]]

-----------------------------------------------------------------------------
(* Responses *)

NoDay == [y |-> 0, m |-> 0, d |-> 0]

\* jsonify(...) with its status; raised names the exception of a handler
\* that did not return (Flask answers 500).
Resp(status, error, message) ==
    [status |-> status, error |-> error, message |-> message, date |-> <<>>,
     logs |-> <<>>, suggestions |-> <<>>, avg |-> 0, raised |-> ""]

Unhandled(exc) == [Resp(500, "Internal Server Error", "") EXCEPT !.raised = exc]

NoResp == Resp(0, "", "")

-----------------------------------------------------------------------------
(* Request handlers *)

\* The validation block of add_log and edit_log: the first check that fails
\* decides the response; NoResp when all three pass.
ValidationError(data) ==
    LET vd == validate_date(Get(data.date))
        vm == validate_mood(Get(data.mood))
        vp == validate_productivity(Get(data.productivity))
    IN  IF vd.exc # "" THEN Unhandled(vd.exc)
        ELSE IF ~vd.ret THEN Resp(400, "Invalid date format. Use YYYY-MM-DD", "")
        ELSE IF vm.exc # "" THEN Unhandled(vm.exc)
        ELSE IF ~vm.ret THEN Resp(400, "Invalid mood", "")
        ELSE IF vp.exc # "" THEN Unhandled(vp.exc)
        ELSE IF ~vp.ret THEN Resp(400, "Invalid productivity score. Must be 1-10", "")
        ELSE NoResp

\* The dict both handlers build from a validated body.
LogData(data) ==
    [date |-> data.date,
     mood |-> data.mood,
     productivity |-> IntV(PyInt(data.productivity).val),
     note |-> Get(data.note)]

\* GET /api/logs
get_logs(f) == [Resp(200, "", "") EXCEPT !.logs = load_all_logs(f)]

\* POST /api/logs.  ioOk: whether open() of the file for writing succeeds
\* (save_log returns False, and the file is as it was, when it does not).
add_log(f, data, ioOk) ==
    LET err == ValidationError(data)
    IN  IF err # NoResp THEN [file |-> f, resp |-> err]
        ELSE IF ioOk
             THEN [file |-> save_log(f, LogData(data)),
                   resp |-> Resp(200, "", "Log added successfully")]
             ELSE [file |-> f, resp |-> Resp(500, "Failed to save log", "")]

\* faulty variant: the index one past the end passes
InvalidIndex_off_by_one(log_index, logs) == log_index < 0 \/ log_index > Len(logs)

\* log_index < 0 or log_index >= len(logs)
InvalidIndex(log_index, logs) == log_index < 0 \/ log_index >= Len(logs)

\* A Python list index: negative ones count from the end; 0 when it is out
\* of range (IndexError), else the position, from 1.
Position(logs, i) ==
    LET k == IF i < 0 THEN i + Len(logs) ELSE i
    IN  IF k < 0 \/ k >= Len(logs) THEN 0 ELSE k + 1

\* faulty variant: the last entry is removed whatever the index
RemoveAt_last(logs, pos) == SubSeq(logs, 1, Len(logs) - 1)

\* logs.pop(log_index): the list without the entry at the position
RemoveAt(logs, pos) == SubSeq(logs, 1, pos - 1) \o SubSeq(logs, pos + 1, Len(logs))

\* edit_log between its load and its write: [write, logs, resp].
edit_step(logs, log_index, data) ==
    LET err == ValidationError(data)
        pos == Position(logs, log_index)
    IN  IF InvalidIndex(log_index, logs)
        THEN [write |-> FALSE, logs |-> logs, resp |-> Resp(400, "Invalid log index", "")]
        ELSE IF err # NoResp THEN [write |-> FALSE, logs |-> logs, resp |-> err]
        ELSE IF pos = 0
             THEN [write |-> FALSE, logs |-> logs, resp |-> Unhandled("IndexError")]
        ELSE [write |-> TRUE,
              logs |-> [logs EXCEPT ![pos] = LogData(data)],
              resp |-> Resp(200, "", "Log updated successfully")]

\* delete_log between its load and its write: [write, logs, resp].
delete_step(logs, log_index) ==
    LET pos == Position(logs, log_index)
    IN  IF InvalidIndex(log_index, logs)
        THEN [write |-> FALSE, logs |-> logs, resp |-> Resp(400, "Invalid log index", "")]
        ELSE IF pos = 0
             THEN [write |-> FALSE, logs |-> logs, resp |-> Unhandled("IndexError")]
        ELSE [write |-> TRUE,
              logs |-> RemoveAt(logs, pos),
              resp |-> [Resp(200, "", "Log for {date} deleted successfully")
                            EXCEPT !.date = CsvText(logs[pos].date)]]

\* The write that ends edit_log and delete_log: save_all_logs, and the 500
\* response when it returns False.
Commit(f, step, ioOk, failure) ==
    IF ~step.write THEN [file |-> f, resp |-> step.resp]
    ELSE IF ioOk THEN [file |-> save_all_logs(f, step.logs), resp |-> step.resp]
    ELSE [file |-> f, resp |-> Resp(500, failure, "")]

\* PUT /api/logs/<log_index>
edit_log(f, log_index, data, ioOk) ==
    Commit(f, edit_step(load_all_logs(f), log_index, data), ioOk, "Failed to update log")

\* DELETE /api/logs/<log_index>
delete_log(f, log_index, ioOk) ==
    Commit(f, delete_step(load_all_logs(f), log_index), ioOk, "Failed to delete log")

-----------------------------------------------------------------------------
(* Insights: MoodTracker.get_insights *)

RecentDays == 7

negative_moods ==
    { <<"s", "a", "d">>, <<"a", "n", "g", "r", "y">>,
      <<"a", "n", "x", "i", "o", "u", "s">>, <<"t", "i", "r", "e", "d">> }

ProductivityLow ==
    <<"Let's improve! Consider these tips:",
      "Start with the most important task first",
      "Take regular breaks using Pomodoro technique",
      "Minimize distractions during work hours">>

SelfCare ==
    <<"You've had some tough days. Remember to:",
      "Take time for self-care activities",
      "Talk to friends or family",
      "Practice mindfulness or meditation">>

RECURSIVE SumProductivity(_)
SumProductivity(logs) ==
    IF logs = <<>> THEN 0 ELSE Head(logs).productivity.n + SumProductivity(Tail(logs))

\* (datetime.now() - timedelta(days=7)).strftime('%Y-%m-%d')
recent_date(today) == Strftime(MinusDays(today, RecentDays))

\* log['date'] >= recent_date, on strings
IsRecent(log, today) == StrGE(CsvText(log.date), recent_date(today))

\* mood in negative_moods: the mood as stored, compared as it is
IsNegative(log) == CsvText(log.mood) \in negative_moods

\* The message(s) for an average of total / count.
ProductivitySuggestions(total, count) ==
    IF total >= 8 * count
    THEN <<"Excellent! You're doing great! Keep up the fantastic work!">>
    ELSE IF total >= 6 * count
    THEN <<"Good job! You're maintaining solid productivity.">>
    ELSE IF total >= 4 * count
    THEN <<"Not bad! Try breaking tasks into smaller chunks to improve focus.">>
    ELSE ProductivityLow

\* round(total / count, 2) in hundredths (no quotient of the lists modelled
\* lies halfway between two hundredths)
Hundredths(total, count) == (200 * total + count) \div (2 * count)

\* GET /api/insights, with the day datetime.now() falls on
get_insights(f, today) ==
    LET logs == load_all_logs(f)
        IsRecentLog(log) == IsRecent(log, today)
        recent_logs == SelectSeq(logs, IsRecentLog)
        total == SumProductivity(recent_logs)
        negative_count == Len(SelectSeq(recent_logs, IsNegative))
        base == ProductivitySuggestions(total, Len(recent_logs))
    IN  IF logs = <<>> THEN Resp(200, "No data available", "")
        ELSE IF recent_logs = <<>> THEN Resp(200, "No recent data available", "")
        ELSE [Resp(200, "", "") EXCEPT
                !.avg = Hundredths(total, Len(recent_logs)),
                !.suggestions =
                    IF 2 * negative_count > Len(recent_logs)
                    THEN base \o SelfCare
                    ELSE base]

-----------------------------------------------------------------------------
(* The inputs the model draws from *)

D_0304 == <<"2", "0", "2", "4", "-", "0", "3", "-", "0", "4">>

D_0105 == <<"2", "0", "2", "4", "-", "0", "1", "-", "0", "5">>

D_3_4 == <<"2", "0", "2", "4", "-", "3", "-", "4">>

D_1340 == <<"2", "0", "2", "4", "-", "1", "3", "-", "4", "0">>

D_word == <<"n", "o", "t", "-", "a", "-", "d", "a", "t", "e">>

D_0230 == <<"2", "0", "2", "4", "-", "0", "2", "-", "3", "0">>

M_happy == <<"h", "a", "p", "p", "y">>

M_sad == <<"s", "a", "d">>

M_Sad == <<"S", "a", "d">>

M_tired == <<"t", "i", "r", "e", "d">>

M_calm == <<"c", "a", "l", "m">>

M_glad == <<"g", "l", "a", "d">>

N_ok == <<"o", "k">>

N_cr == <<"a", "CR", "b">>

N_lf == <<"a", "LF", "b">>

P_3 == <<"3">>

P_abc == <<"a", "b", "c">>

Body(date, mood, productivity, note) ==
    [date |-> date, mood |-> mood, productivity |-> productivity, note |-> note]

NoData == Body(Missing, Missing, Missing, Missing)

\* Bodies that pass the three validators.
AcceptedBodies ==
    { Body(StrV(D_0304), StrV(M_happy), IntV(9), Missing),
      Body(StrV(D_0304), StrV(M_sad), StrV(P_3), StrV(N_ok)),
      Body(StrV(D_0304), StrV(M_Sad), IntV(2), StrV(<<>>)),
      Body(StrV(D_0105), StrV(M_tired), IntV(10), Null),
      Body(StrV(D_3_4), StrV(M_calm), IntV(1), Missing),
      Body(StrV(D_0304), StrV(M_happy), IntV(5), StrV(N_cr)),
      Body(StrV(D_0105), StrV(M_happy), IntV(8), StrV(N_lf)) }

\* Bodies with one field wrong, absent or null.
OtherBodies ==
    { Body(StrV(D_1340), StrV(M_happy), IntV(5), Missing),
      Body(StrV(D_word), StrV(M_happy), IntV(5), Missing),
      Body(StrV(D_0230), StrV(M_happy), IntV(5), Missing),
      Body(Missing, StrV(M_happy), IntV(5), Missing),
      Body(Null, StrV(M_happy), IntV(5), Missing),
      Body(StrV(D_0304), StrV(M_glad), IntV(5), Missing),
      Body(StrV(D_0304), Null, IntV(5), Missing),
      Body(StrV(D_0304), StrV(M_happy), IntV(0), Missing),
      Body(StrV(D_0304), StrV(M_happy), IntV(11), Missing),
      Body(StrV(D_0304), StrV(M_happy), StrV(P_abc), Missing),
      Body(StrV(D_0304), StrV(M_happy), Missing, Missing),
      Body(StrV(D_0304), StrV(M_happy), Null, Missing) }

Bodies == AcceptedBodies \cup OtherBodies

\* The indices a request may name: one below the first to one past the last.
Indices == (0 - 1)..MaxLogs

\* The days datetime.now() may fall on.
Todays == { [y |-> 2024, m |-> 3, d |-> 5], [y |-> 2024, m |-> 3, d |-> 12] }

Req(op, idx, data, ioOk, today) ==
    [op |-> op, idx |-> idx, data |-> data, ioOk |-> ioOk, today |-> today]

-----------------------------------------------------------------------------
(* Requests served one at a time *)

NoReq == Req("none", 0, NoData, TRUE, NoDay)

Idle ==
    /\ rpc = [p \in {1, 2} |-> "idle"]
    /\ rreq = [p \in {1, 2} |-> NoReq]
    /\ rsnap = [p \in {1, 2} |-> <<>>]
    /\ rresp = [p \in {1, 2} |-> NoResp]
    /\ rtrace = <<>>

\* tracker = MoodTracker() in an empty directory
Init ==
    /\ file = initialize_file(Absent)
    /\ prevFile = file
    /\ lastReq = NoReq
    /\ lastResp = NoResp
    /\ Idle

\* A request is taken when the response to the one before has gone out.
Serve(req, out) ==
    /\ lastReq = NoReq
    /\ file' = out.file
    /\ prevFile' = file
    /\ lastReq' = req
    /\ lastResp' = out.resp
    /\ UNCHANGED raceVars

AddLog(B) ==
    /\ Len(file.rows) <= MaxLogs
    /\ \E data \in B, ioOk \in BOOLEAN :
          Serve(Req("add", 0, data, ioOk, NoDay), add_log(file, data, ioOk))

EditLog(B) ==
    \E log_index \in Indices, data \in B, ioOk \in BOOLEAN :
        Serve(Req("edit", log_index, data, ioOk, NoDay),
              edit_log(file, log_index, data, ioOk))

DeleteLog ==
    \E log_index \in Indices, ioOk \in BOOLEAN :
        Serve(Req("delete", log_index, NoData, ioOk, NoDay),
              delete_log(file, log_index, ioOk))

GetLogs ==
    Serve(Req("list", 0, NoData, TRUE, NoDay), [file |-> file, resp |-> get_logs(file)])

GetInsights ==
    \E today \in Todays :
        Serve(Req("insights", 0, NoData, TRUE, today),
              [file |-> file, resp |-> get_insights(file, today)])

\* The handler returns: the response goes out and the server is free again.
Reply ==
    /\ lastReq # NoReq
    /\ lastReq' = NoReq
    /\ lastResp' = NoResp
    /\ prevFile' = file
    /\ UNCHANGED <<file, raceVars>>

Next ==
    \/ AddLog(Bodies)
    \/ EditLog(Bodies)
    \/ DeleteLog
    \/ GetLogs
    \/ GetInsights
    \/ Reply

Spec == Init /\ [][Next]_vars

-----------------------------------------------------------------------------
(* The store as the program may find it: left by an earlier run or edited  *)
(* by hand before start-up, removed while the server runs                   *)

\* A store with a row whose productivity is no number: the read raises.
CorruptStore ==
    [exists |-> TRUE,
     rows |-> <<HeaderRow,
                <<D_0105, M_calm, <<"7">>, N_ok>>,
                <<D_0304, M_sad, P_abc, <<>>>>>>]

PreStartStores == {Absent, CorruptStore}

EnvBodies ==
    { Body(StrV(D_0304), StrV(M_happy), IntV(9), Missing),
      Body(StrV(D_0304), StrV(M_happy), IntV(5), StrV(N_cr)),
      Body(StrV(D_1340), StrV(M_happy), IntV(5), Missing) }

InitEnv ==
    /\ file \in {initialize_file(f) : f \in PreStartStores}
    /\ prevFile = file
    /\ lastReq = NoReq
    /\ lastResp = NoResp
    /\ Idle

\* tracker = MoodTracker() once more: the server is started again.
Restart ==
    Serve(Req("start", 0, NoData, TRUE, NoDay),
          [file |-> initialize_file(file), resp |-> NoResp])

\* save_all_logs(load_all_logs()): the store rewritten from what is read.
rewrite(f, ioOk) == IF ioOk THEN save_all_logs(f, load_all_logs(f)) ELSE f

Rewrite ==
    \E ioOk \in BOOLEAN :
        Serve(Req("rewrite", 0, NoData, ioOk, NoDay),
              [file |-> rewrite(file, ioOk), resp |-> NoResp])

\* The file is removed from outside the program (what load_all_logs meets
\* as FileNotFoundError).
RemoveFile ==
    /\ lastReq = NoReq
    /\ file.exists
    /\ file' = Absent
    /\ prevFile' = Absent
    /\ UNCHANGED <<lastReq, lastResp, raceVars>>

NextEnv ==
    \/ AddLog(EnvBodies)
    \/ EditLog(EnvBodies)
    \/ DeleteLog
    \/ GetLogs
    \/ Rewrite
    \/ Restart
    \/ RemoveFile
    \/ Reply

SpecEnv == InitEnv /\ [][NextEnv]_vars

-----------------------------------------------------------------------------
(* Two update or delete requests served by two threads: each loads the     *)
(* collection, then rewrites the store from its own copy.                  *)

RaceBodies ==
    { Body(StrV(D_0304), StrV(M_happy), IntV(9), Missing),
      Body(StrV(D_0105), StrV(M_sad), StrV(P_3), StrV(N_ok)),
      Body(StrV(D_1340), StrV(M_happy), IntV(5), Missing) }

RaceLogs ==
    { LogData(Body(StrV(D_0105), StrV(M_calm), IntV(7), StrV(N_ok))),
      LogData(Body(StrV(D_0304), StrV(M_tired), IntV(4), StrV(<<>>))) }

RaceStores == {save_all_logs(Absent, logs) : logs \in [1..MaxLogs -> RaceLogs]}

RaceRequests ==
    {Req("edit", i, b, TRUE, NoDay) : i \in 0..MaxLogs, b \in RaceBodies}
        \cup {Req("delete", i, NoData, TRUE, NoDay) : i \in 0..MaxLogs}

InitRace ==
    /\ file \in RaceStores
    /\ prevFile = file
    /\ lastReq = NoReq
    /\ lastResp = NoResp
    /\ rpc = [p \in {1, 2} |-> "start"]
    /\ rreq \in [{1, 2} -> RaceRequests]
    /\ rsnap = [p \in {1, 2} |-> <<>>]
    /\ rresp = [p \in {1, 2} |-> NoResp]
    /\ rtrace = <<>>

\* logs = tracker.load_all_logs()
RaceLoad(p) ==
    /\ rpc[p] = "start"
    /\ rsnap' = [rsnap EXCEPT ![p] = load_all_logs(file)]
    /\ rpc' = [rpc EXCEPT ![p] = "loaded"]
    /\ rtrace' = Append(rtrace, <<"load", p>>)
    /\ UNCHANGED <<seqVars, rreq, rresp>>

\* What a handler does with the list it loaded.
StepOf(req, logs) ==
    IF req.op = "edit" THEN edit_step(logs, req.idx, req.data)
    ELSE delete_step(logs, req.idx)

\* The error of the 500 response when the write fails.
FailureOf(req) ==
    IF req.op = "edit" THEN "Failed to update log" ELSE "Failed to delete log"

\* The rest of the handler: index test, validation, the change of its copy, the write.
RaceFinish(p) ==
    /\ rpc[p] = "loaded"
    /\ \E ioOk \in BOOLEAN :
          LET out == Commit(file, StepOf(rreq[p], rsnap[p]), ioOk, FailureOf(rreq[p]))
          IN  /\ file' = out.file
              /\ rresp' = [rresp EXCEPT ![p] = out.resp]
    /\ rpc' = [rpc EXCEPT ![p] = "done"]
    /\ rtrace' = Append(rtrace, <<"write", p>>)
    /\ UNCHANGED <<prevFile, lastReq, lastResp, rreq, rsnap>>

NextRace == \E p \in {1, 2} : RaceLoad(p) \/ RaceFinish(p)

SpecRace == InitRace /\ [][NextRace]_vars

-----------------------------------------------------------------------------
(* What the properties speak of *)

\* The collection a list request returns before and after the last request.
Before == load_all_logs(prevFile)

After == get_logs(file).logs

\* The last request passed validation and its write succeeded.
Accepted == ValidationError(lastReq.data) = NoResp /\ lastReq.ioOk

\* The entry a body submits: date and mood as submitted, productivity as an
\* integer, the note or the empty string when there is none.
Submitted(data) ==
    [date |-> data.date,
     mood |-> data.mood,
     productivity |-> IntV(PyInt(data.productivity).val),
     note |-> IF data.note.t = "str" THEN data.note ELSE StrV(<<>>)]

IndexInRange == 0 <= lastReq.idx /\ lastReq.idx < Len(Before)

ClientError(resp) == 400 <= resp.status /\ resp.status <= 499

\* A text of the form YYYY-MM-DD, zero padded, that names a calendar date.
IsYMD(s) ==
    /\ Len(s) = 10
    /\ \A i \in {1, 2, 3, 4, 6, 7, 9, 10} : IsDigit(s[i])
    /\ s[5] = "-" /\ s[8] = "-"
    /\ Strptime(s).ok

\* A value that parses as an integer from 1 to 10.
IsScore(v) == PyInt(v).exc = "" /\ PyInt(v).val \in 1..10

-----------------------------------------------------------------------------
(* Properties of the handlers, one request at a time (Spec) *)

\* C1: after a create request with valid date, mood and productivity whose
\* write succeeds, a list request returns one entry more than before and the
\* last one equals the submitted entry.
C1_CreateThenList ==
    (lastReq.op = "add" /\ Accepted) =>
        /\ Len(After) = Len(Before) + 1
        /\ After[Len(After)] = Submitted(lastReq.data)

\* C2: after an update request at a valid index with valid fields whose
\* write succeeds, the collection has the length it had, holds the submitted
\* entry at that index and is unchanged at every other index.
C2_UpdateOnlyIndex ==
    (lastReq.op = "edit" /\ IndexInRange /\ Accepted) =>
        /\ Len(After) = Len(Before)
        /\ After[lastReq.idx + 1] = Submitted(lastReq.data)
        /\ \A j \in 1..Len(Before) : j # lastReq.idx + 1 => After[j] = Before[j]

\* C3: after a delete request at a valid index i whose write succeeds, the
\* collection is one shorter, positions below i are as they were, every
\* position from i on holds what followed it, and the success message names
\* the date of the entry that was at i.
C3_DeleteShifts ==
    (lastReq.op = "delete" /\ IndexInRange /\ lastReq.ioOk) =>
        /\ Len(After) = Len(Before) - 1
        /\ \A j \in 1..Len(After) :
              After[j] = IF j <= lastReq.idx THEN Before[j] ELSE Before[j + 1]
        /\ lastResp.status = 200
        /\ lastResp.message = "Log for {date} deleted successfully"
        /\ lastResp.date = Before[lastReq.idx + 1].date.s

\* C3 happens: the first of two different entries is deleted.
C3_Witness ==
    /\ lastReq.op = "delete" /\ lastReq.idx = 0 /\ lastReq.ioOk
    /\ Len(Before) >= 2 /\ Before[1] # Before[2]
    /\ lastResp.status = 200

\* C4: an update or delete request addressed to index -1 or to the length
\* of the collection gets a 400-class response.
C4_BadIndexRejected ==
    (lastReq.op \in {"edit", "delete"}
        /\ (lastReq.idx = 0 - 1 \/ lastReq.idx = Len(Before))) =>
        ClientError(lastResp)

\* C4 happens: an update with a body that would pass, addressed one past the
\* last of a collection that is not empty.
C4_Witness ==
    /\ lastReq.op = "edit" /\ Accepted
    /\ Len(Before) >= 1 /\ lastReq.idx = Len(Before)
    /\ lastResp.status = 400 /\ lastResp.error = "Invalid log index"

\* C5: a create or update request whose date is no valid YYYY-MM-DD date or
\* whose productivity is no integer from 1 to 10 (absent and null included)
\* gets a 400-class response and leaves the store as it was.
C5_InvalidFieldsRejected ==
    (lastReq.op \in {"add", "edit"}
        /\ \/ ~(lastReq.data.date.t = "str" /\ IsYMD(lastReq.data.date.s))
           \/ ~IsScore(lastReq.data.productivity)) =>
        ClientError(lastResp) /\ file = prevFile

\* C6: every persisted record has the four fields, a productivity that is
\* an integer from 1 to 10 and a date that is a valid YYYY-MM-DD date.
C6_PersistedRecordsValid ==
    \A i \in 2..Len(file.rows) :
        /\ Len(file.rows[i]) = 4
        /\ IsScore(StrV(file.rows[i][3]))
        /\ IsYMD(file.rows[i][1])

\* The recent entries of the insights request last served, and those among
\* them whose mood, lower-cased as the validator does, is a negative one.
RecentEntries ==
    LET Recent(log) == IsRecent(log, lastReq.today)
    IN  SelectSeq(load_all_logs(file), Recent)

NegativeEntries ==
    LET Negative(log) == Lower(CsvText(log.mood)) \in negative_moods
    IN  SelectSeq(RecentEntries, Negative)

EndsWithSelfCare(suggestions) ==
    /\ Len(suggestions) > Len(SelfCare)
    /\ SubSeq(suggestions, Len(suggestions) - Len(SelfCare) + 1, Len(suggestions)) = SelfCare

\* C9: when some entry is recent, the suggestions of the insights end with
\* the self-care block exactly when more than half of the recent entries
\* have a negative mood.
C9_SelfCareIffMostlyNegative ==
    (lastReq.op = "insights" /\ RecentEntries # <<>>) =>
        (EndsWithSelfCare(lastResp.suggestions)
            <=> 2 * Len(NegativeEntries) > Len(RecentEntries))

-----------------------------------------------------------------------------
(* Properties of the store as it may be found (SpecEnv) *)

HeaderOnly == [exists |-> TRUE, rows |-> <<HeaderRow>>]

\* A file as save_log and save_all_logs leave it, with no carriage return
\* in a field: the header, then rows of four fields whose productivity is a
\* number written without sign, blank or leading zero.
AsWritten(f) ==
    /\ f.exists
    /\ Len(f.rows) >= 1 /\ f.rows[1] = HeaderRow
    /\ \A i \in 2..Len(f.rows) :
          /\ Len(f.rows[i]) = 4
          /\ AllDigits(f.rows[i][3]) /\ f.rows[i][3][1] # "0"
          /\ \A k \in 1..4 : \A c \in 1..Len(f.rows[i][k]) : f.rows[i][k][c] # "CR"

C10_FailedReadNeverWrites ==
    (lastReq.op \in {"edit", "delete"} /\ LoadFails(prevFile)) =>
        /\ file = prevFile
        /\ lastResp.status = 400
        /\ lastResp.error = "Invalid log index"

\* C10 happens: an update that would pass validation, addressed to the
\* first row of a store that holds rows but whose read raises.
C10_Witness ==
    /\ lastReq.op = "edit" /\ lastReq.idx = 0 /\ Accepted
    /\ ReadRaises(prevFile) /\ Len(prevFile.rows) > 1
    /\ file = prevFile /\ lastResp.status = 400

-----------------------------------------------------------------------------
(* Properties of two concurrent handlers (SpecRace) *)

BothDone == rpc[1] = "done" /\ rpc[2] = "done"

\* Both handlers loaded before either wrote.
Overlapped == Len(rtrace) >= 2 /\ rtrace[1][1] = "load" /\ rtrace[2][1] = "load"

LastWriter == rtrace[Len(rtrace)][2]

FirstWriter == 3 - LastWriter

\* C8: when two update or delete requests have both loaded before either
\* wrote and both answer success, the store holds what the later writer
\* made of the collection both loaded: the earlier writer's change is not
\* in it (an entry it replaced is back, an entry it deleted is back).
C8_LostUpdate ==
    (BothDone /\ Overlapped /\ rresp[1].status = 200 /\ rresp[2].status = 200) =>
        LET L0 == load_all_logs(prevFile)
            first == rreq[FirstWriter]
            last == rreq[LastWriter]
            final == load_all_logs(file)
        IN  /\ final = StepOf(last, L0).logs
            /\ (first.op = "edit" /\ last.op = "edit" /\ first.idx # last.idx) =>
                  final[first.idx + 1] = L0[first.idx + 1]
            /\ (first.op = "delete" /\ last.op = "edit") => Len(final) = Len(L0)

\* C8 happens: both answer success, and the entry the earlier writer put at
\* index 0 is not in the store, which holds the old entry there.
C8_Witness ==
    /\ BothDone /\ Overlapped
    /\ rresp[1].status = 200 /\ rresp[2].status = 200
    /\ rreq[FirstWriter].op = "edit" /\ rreq[FirstWriter].idx = 0
    /\ rreq[LastWriter].op = "edit" /\ rreq[LastWriter].idx = 1
    /\ load_all_logs(file)[1] = load_all_logs(prevFile)[1]
    /\ load_all_logs(file)[1] # LogData(rreq[FirstWriter].data)

=============================================================================
